---- MODULE Spec2Model ----
(***************************************************************************)
(* Model of the C bit reader used by the h264dec fuzz targets              *)
(* (codec/h264/h264dec/fuzz/helpers.{h,c}) and of the level_prefix parser  *)
(* built on it (fuzzParseLevelPrefix/parse_level_prefix.c).                *)
(*                                                                         *)
(* A uint64_t is eight octets and an int used as a shift mask four,        *)
(* most significant first: TLC's integers are narrower than the            *)
(* accumulator, and the widths matter.                                     *)
(*                                                                         *)
(* What the C standard leaves open is a nondeterministic choice:           *)
(*   build.charSigned  whether plain char is signed (helpers.c:48, 55),    *)
(*                     chosen once, in Init;                               *)
(*   ShiftOutcomes     what 1 << 32 yields on an int (helpers.c:66);       *)
(*   Garbage           what data[curr] yields at curr >= len               *)
(*                     (helpers.c:48); the index is recorded in accessed.  *)
(***************************************************************************)
EXTENDS Integers, Sequences, FiniteSets, TLC

VARIABLES
  r,         \* struct Reader: data, curr, len, err
  br,        \* struct BitReader: n, bits, nRead, err (br->r is r)
  build,     \* the build's choices, see above
  op,        \* the call that produced this state: "new", "read_bits", "read_levelprefix"
  ret,       \* what that call returned (a uint64_t for read_bits, an int for read_levelprefix)
  accessed,  \* the indices i of every data[i] that call evaluated
  calls,     \* the number of read_bits calls that call made (read_levelprefix only)
  consumed,  \* total of n over all read_bits calls that reached helpers.c:67
  firstCall, \* TRUE iff this state is the result of the first call on a fresh reader
  kept       \* br as it was just before the next_byte call that made that call
             \* fail; br itself when no fetch of that call failed

vars == <<r, br, build, op, ret, accessed, calls, consumed, firstCall, kept>>

(* ------------------------------ bounds --------------------------------- *)

\* Longest backing buffer of the general specifications.
MaxLen == 4
\* How far past len the byte cursor may run before the model stops calling.
MaxOver == 2
\* Most all-zero bytes in front of the byte holding the first 1-bit (SpecPrefix).
MaxZeros == 2

\* Byte values of the general specifications' buffers: no bit set, and the
\* top and the bottom bit set.
ByteVals == {0, 129}
\* Values an out-of-bounds data[curr] may yield.
Garbage == {0, 85}
\* The widths read_bits is called with: a sample of 1..32 holding the single
\* bit, widths inside a byte, whole bytes, widths one off a byte boundary and
\* the two widest.
Widths == {1, 2, 3, 4, 5, 7, 8, 9, 12, 15, 16, 17, 24, 25, 31, 32}

(* --------------------------- fixed-width words -------------------------- *)
(* A uint64_t is eight octets and an int four, most significant first.      *)

Pow2(k) == 2 ^ k

\* Bit j (0 = least significant) of the non-negative integer v.
BitOf(v, j) == (v \div Pow2(j)) % 2

\* a & b on octets.
And8(a, b) ==
  IF a = 0 \/ b = 0 THEN 0
  ELSE IF a = 255 THEN b
  ELSE IF b = 255 THEN a
  ELSE   BitOf(a, 0) * BitOf(b, 0)       + BitOf(a, 1) * BitOf(b, 1) * 2
       + BitOf(a, 2) * BitOf(b, 2) * 4   + BitOf(a, 3) * BitOf(b, 3) * 8
       + BitOf(a, 4) * BitOf(b, 4) * 16  + BitOf(a, 5) * BitOf(b, 5) * 32
       + BitOf(a, 6) * BitOf(b, 6) * 64  + BitOf(a, 7) * BitOf(b, 7) * 128

\* a | b on octets.
Or8(a, b) == a + b - And8(a, b)

Zero64 == <<0, 0, 0, 0, 0, 0, 0, 0>>

\* The value of plain char for the octet o stored in the buffer.
CharOf(o, b) == IF b.charSigned /\ o >= 128 THEN o - 256 ELSE o

\* (uint64_t)c for a char c: a negative value converts modulo 2^64.
ToU64(c) ==
  IF c < 0 THEN <<255, 255, 255, 255, 255, 255, 255, c + 256>>
  ELSE <<0, 0, 0, 0, 0, 0, 0, c>>

\* x << 8 on a uint64_t.
Shl8(x) == SubSeq(x, 2, 8) \o <<0>>

\* Octet i of x, 0 above the most significant one.
OctetAt(x, i) == IF i >= 1 THEN x[i] ELSE 0

\* x >> s on a uint64_t, 0 <= s < 64.
Shr(x, s) ==
  LET q == s \div 8
      t == s % 8
  IN  [i \in 1..8 |-> (OctetAt(x, i - q) \div Pow2(t))
                      + (OctetAt(x, i - q - 1) % Pow2(t)) * Pow2(8 - t)]

Or64(x, y) == [i \in 1..8 |-> Or8(x[i], y[i])]

And64(x, y) == [i \in 1..8 |-> And8(x[i], y[i])]

\* What the out-of-range shift 1 << n, n >= 32, can yield on an int: the
\* count taken modulo 32, or every bit shifted out. In range there is one
\* outcome.
ShiftOutcomes(n) == IF n < 32 THEN {"exact"} ELSE {"mod32", "zero"}

\* 1 << n on a 32-bit int under outcome sh; n = 31 lands in the sign bit.
Shl1(n, sh) ==
  LET k == IF sh = "mod32" THEN n % 32 ELSE n
  IN  [i \in 1..4 |-> IF k < 32 /\ 4 - i = k \div 8 THEN Pow2(k % 8) ELSE 0]

\* x - 1 on a 32-bit int, wrapping in two's complement.
Dec32(x) ==
  LET nz  == {i \in 1..4 : x[i] > 0}
      low == IF nz = {} THEN 0 ELSE CHOOSE i \in nz : \A j \in nz : j <= i
  IN  [i \in 1..4 |-> IF i < low THEN x[i] ELSE IF i = low THEN x[i] - 1 ELSE 255]

\* (uint64_t)x for a 32-bit int x: sign extension.
SignExt32(x) ==
  LET f == IF x[1] >= 128 THEN 255 ELSE 0
  IN  <<f, f, f, f>> \o x

\* (1 << n) - 1, converted for the & with a uint64_t.
Mask(n, sh) == SignExt32(Dec32(Shl1(n, sh)))

\* int b = <uint64_t>; !b : the low 32 bits decide.
IsZeroInt(x) == \A i \in 5..8 : x[i] = 0

(* ------------------------------ helpers.c ------------------------------- *)
(* A function whose result depends on a value the C standard leaves open   *)
(* is modelled by the set of its possible outcomes.                         *)

new_Reader(d) == [data |-> d, curr |-> 0, len |-> Len(d), err |-> 0]

new_BitReader == [n |-> Zero64, bits |-> 0, nRead |-> 0, err |-> 0]

\* The chars data[curr] can yield: the stored one inside the buffer,
\* anything outside it.
Fetched(rd, b) ==
  IF rd.curr >= 0 /\ rd.curr < Len(rd.data)
  THEN {CharOf(rd.data[rd.curr + 1], b)} ELSE Garbage

\* Mutant: the bounds check is off by one.
AtEnd_OffByOne(rd) == rd.curr > rd.len

\* When next_byte raises the error flag.
AtEnd(rd) == rd.curr >= rd.len

\* char next_byte(Reader *r): the reader afterwards, the char returned and
\* the index read, one record per possible char.
next_byte(rd, b) ==
  {[r    |-> [rd EXCEPT !.err = IF AtEnd(rd) THEN 1 ELSE rd.err,
                        !.curr = rd.curr + 1],
    next |-> c,
    idx  |-> rd.curr] : c \in Fetched(rd, b)}

\* Mutant: the loop fetches another byte when exactly n bits are pending.
NeedByte_Eager(n, bits) == n >= bits

\* The loop condition of read_bits.
NeedByte(n, bits) == n > bits

\* Mutant: nRead is incremented before the error check.
TakeByte_CountFirst(s, nb) ==
  IF nb.r.err # 0
  THEN [s EXCEPT !.r = nb.r, !.br.err = 1, !.failed = TRUE,
                 !.br.nRead = @ + 1,
                 !.accessed = @ \cup {nb.idx}]
  ELSE [s EXCEPT !.r = nb.r,
                 !.br.nRead = @ + 1,
                 !.br.n = Or64(Shl8(@), ToU64(nb.next)),
                 !.br.bits = @ + 8,
                 !.accessed = @ \cup {nb.idx}]

\* Mutant: the byte is shifted in before the error check.
TakeByte_ShiftFirst(s, nb) ==
  LET t == [s EXCEPT !.r = nb.r,
                     !.br.nRead = @ + 1,
                     !.br.n = Or64(Shl8(@), ToU64(nb.next)),
                     !.br.bits = @ + 8,
                     !.accessed = @ \cup {nb.idx}]
  IN  IF nb.r.err # 0 THEN [t EXCEPT !.br.err = 1, !.failed = TRUE] ELSE t

\* What read_bits does with the byte next_byte returned.
TakeByte(s, nb) ==
  IF nb.r.err # 0
  THEN [s EXCEPT !.r = nb.r, !.br.err = 1, !.failed = TRUE,
                 !.accessed = @ \cup {nb.idx}]
  ELSE [s EXCEPT !.r = nb.r,
                 !.br.nRead = @ + 1,
                 !.br.n = Or64(Shl8(@), ToU64(nb.next)),
                 !.br.bits = @ + 8,
                 !.accessed = @ \cup {nb.idx}]

\* One pass through the body of the while loop of read_bits.
FetchStep(s, b) ==
  {TakeByte([s EXCEPT !.kept = s.br], nb) : nb \in next_byte(s.r, b)}

\* The while loop of read_bits, left by the return inside it (failed) or by
\* its condition.
RECURSIVE Refill(_, _, _)
Refill(s, n, b) ==
  IF s.failed \/ ~NeedByte(n, s.br.bits) THEN {s}
  ELSE UNION {Refill(t, n, b) : t \in FetchStep(s, b)}

\* Mutant: the accumulator is masked without being shifted down.
Extract_NoShift(acc, bits, n, sh) == And64(acc, Mask(n, sh))

\* The extraction that ends read_bits.
Extract(acc, bits, n, sh) == And64(Shr(acc, bits - n), Mask(n, sh))

\* Mutant: the failing return also subtracts n from bits.
Finish_ConsumeOnFail(s, n, sh) ==
  IF s.failed
  THEN [br |-> [s.br EXCEPT !.bits = @ - n], r |-> s.r, ret |-> Zero64,
        accessed |-> s.accessed, took |-> 0, kept |-> s.kept]
  ELSE [br |-> [s.br EXCEPT !.bits = @ - n], r |-> s.r,
        ret |-> Extract(s.br.n, s.br.bits, n, sh),
        accessed |-> s.accessed, took |-> n,
        kept |-> [s.br EXCEPT !.bits = @ - n]]

\* Mutant: a successful return clears br->err.
Finish_ClearsErr(s, n, sh) ==
  IF s.failed
  THEN [br |-> s.br, r |-> s.r, ret |-> Zero64, accessed |-> s.accessed, took |-> 0,
        kept |-> s.kept]
  ELSE [br |-> [s.br EXCEPT !.bits = @ - n, !.err = 0], r |-> s.r,
        ret |-> Extract(s.br.n, s.br.bits, n, sh),
        accessed |-> s.accessed, took |-> n,
        kept |-> [s.br EXCEPT !.bits = @ - n, !.err = 0]]

\* read_bits after its loop.
Finish(s, n, sh) ==
  IF s.failed
  THEN [br |-> s.br, r |-> s.r, ret |-> Zero64, accessed |-> s.accessed, took |-> 0,
        kept |-> s.kept]
  ELSE [br |-> [s.br EXCEPT !.bits = @ - n], r |-> s.r,
        ret |-> Extract(s.br.n, s.br.bits, n, sh),
        accessed |-> s.accessed, took |-> n,
        kept |-> [s.br EXCEPT !.bits = @ - n]]

\* uint64_t read_bits(BitReader *br, int n): both structs afterwards, the
\* value returned, the indices read and the number of bits handed out.
read_bits(bitr, rd, n, b) ==
  {Finish(s, n, sh) :
     s \in Refill([br |-> bitr, r |-> rd, failed |-> FALSE, accessed |-> {},
                   kept |-> bitr], n, b),
     sh \in ShiftOutcomes(n)}

(* ------------------------- parse_level_prefix.c ------------------------- *)

\* The initial value of leadingZeroBits.
LeadingZeroInit == -1

\* Mutant: the increment of the for loop is skipped.
Incr_Skipped(lzb) == lzb

\* leadingZeroBits++, the increment of the for loop.
Incr(lzb) == lzb + 1

\* Mutant: a call that returned a 1 is taken to have succeeded.
PrefixFailed_ByValue(bitr, x) == bitr.err # 0 /\ IsZeroInt(x)

\* The error check after each read_bits call of read_levelprefix; x is the
\* value the call returned.
PrefixFailed(bitr, x) == bitr.err # 0

\* The for loop of read_levelprefix: s carries both structs, leadingZeroBits
\* and the bookkeeping of the calls made so far.
RECURSIVE PrefixLoop(_, _)
PrefixLoop(s, b) ==
  UNION {
    LET t == [s EXCEPT !.br = rb.br, !.r = rb.r,
                       !.accessed = @ \cup rb.accessed,
                       !.calls = @ + 1, !.took = @ + rb.took,
                       !.kept = rb.kept]
    IN  IF PrefixFailed(rb.br, rb.ret) THEN {[t EXCEPT !.ret = -1]}
        ELSE IF ~IsZeroInt(rb.ret) THEN {[t EXCEPT !.ret = Incr(s.lzb)]}
        ELSE PrefixLoop([t EXCEPT !.lzb = Incr(@)], b)
    : rb \in read_bits(s.br, s.r, 1, b)}

\* int read_levelprefix(struct BitReader *br).
read_levelprefix(bitr, rd, b) ==
  PrefixLoop([br |-> bitr, r |-> rd, lzb |-> LeadingZeroInit, ret |-> 0,
              accessed |-> {}, calls |-> 0, took |-> 0, kept |-> bitr], b)

(* ----------------------------- state machine ---------------------------- *)

Builds == [charSigned : BOOLEAN]

RECURSIVE SeqsUpTo(_, _)
SeqsUpTo(S, k) ==
  IF k = 0 THEN {<<>>}
  ELSE LET shorter == SeqsUpTo(S, k - 1)
       IN  shorter \cup {Append(q, x) : q \in shorter, x \in S}

Buffers == SeqsUpTo(ByteVals, MaxLen)

Zeros(k) == [i \in 1..k |-> 0]

\* Up to MaxZeros zero bytes, a byte of any value, and at most one byte more.
PrefixBuffers ==
  {Zeros(z) \o <<v>> \o t : z \in 0..MaxZeros, v \in 0..255, t \in SeqsUpTo(ByteVals, 1)}

Start(d, b) ==
  /\ r = new_Reader(d)
  /\ br = new_BitReader
  /\ build = b
  /\ op = "new"
  /\ ret = 0
  /\ accessed = {}
  /\ calls = 0
  /\ consumed = 0
  /\ firstCall = FALSE
  /\ kept = new_BitReader

Init == \E d \in Buffers, b \in Builds : Start(d, b)

InitPrefix == \E d \in PrefixBuffers, b \in Builds : Start(d, b)

\* The model stops calling once the cursor is MaxOver past the end.
InBounds(rd) == rd.curr <= rd.len + MaxOver

\* A call read_bits(br, n).
ReadBitsN(n) ==
    \E res \in read_bits(br, r, n, build) :
        /\ InBounds(res.r)
        /\ r' = res.r
        /\ br' = res.br
        /\ op' = "read_bits"
        /\ kept' = res.kept
        /\ ret' = res.ret
        /\ accessed' = res.accessed
        /\ calls' = 0
        /\ consumed' = consumed + res.took
        /\ firstCall' = (op = "new")
        /\ UNCHANGED build

ReadBits == \E n \in Widths : ReadBitsN(n)

ReadLevelPrefix ==
    \E res \in read_levelprefix(br, r, build) :
        /\ InBounds(res.r)
        /\ r' = res.r
        /\ br' = res.br
        /\ op' = "read_levelprefix"
        /\ kept' = res.kept
        /\ ret' = res.ret
        /\ accessed' = res.accessed
        /\ calls' = res.calls
        /\ consumed' = consumed + res.took
        /\ firstCall' = (op = "new")
        /\ UNCHANGED build

Next == ReadBits \/ ReadLevelPrefix

\* Any sequence of read_bits and read_levelprefix calls.
Spec == Init /\ [][Next]_vars

NextBits == ReadBits

\* Sequences of read_bits calls only.
SpecBits == Init /\ [][NextBits]_vars

NextPrefix == ReadLevelPrefix

\* read_levelprefix calls over buffers in which one byte takes every value.
SpecPrefix == InitPrefix /\ [][NextPrefix]_vars

(* ------------------------- the buffer as a bit string ------------------- *)

\* Bit i of the buffer d, counted from 0 at the most significant bit of d[1].
BitAt(d, i) == BitOf(d[(i \div 8) + 1], 7 - (i % 8))

NBits(d) == 8 * Len(d)

HasOne(d) == \E i \in 0..(NBits(d) - 1) : BitAt(d, i) = 1

\* The index of the first 1-bit of d.
FirstOne(d) ==
  CHOOSE k \in 0..(NBits(d) - 1) :
    BitAt(d, k) = 1 /\ \A j \in 0..(k - 1) : BitAt(d, j) = 0

\* Binary digit j (0 = least significant) of the unsigned integer written by
\* bits p .. p+n-1 of d.
Digit(d, p, n, j) == IF j < n THEN BitAt(d, p + n - 1 - j) ELSE 0

\* That integer as a uint64_t.
BitString(d, p, n) ==
  [i \in 1..8 |->
     LET lo == 8 * (8 - i)
     IN    Digit(d, p, n, lo)          + Digit(d, p, n, lo + 1) * 2
         + Digit(d, p, n, lo + 2) * 4  + Digit(d, p, n, lo + 3) * 8
         + Digit(d, p, n, lo + 4) * 16 + Digit(d, p, n, lo + 5) * 32
         + Digit(d, p, n, lo + 6) * 64 + Digit(d, p, n, lo + 7) * 128]

\* x * 2^s modulo 2^64, 0 <= s < 64.
Times2To(x, s) ==
  LET q == s \div 8
      t == s % 8
      at(i) == IF i <= 8 THEN x[i] ELSE 0
  IN  [i \in 1..8 |-> ((at(i + q) * Pow2(t)) % 256) + (at(i + q + 1) \div Pow2(8 - t))]

RECURSIVE CarryInto(_, _, _)
CarryInto(x, y, i) ==
  IF i = 8 THEN 0 ELSE (x[i + 1] + y[i + 1] + CarryInto(x, y, i + 1)) \div 256

\* x + y modulo 2^64.
Plus(x, y) == [i \in 1..8 |-> (x[i] + y[i] + CarryInto(x, y, i)) % 256]

\* The bits not yet handed out: pending in the accumulator or still in the buffer.
Unread(bitr, rd) == bitr.bits + 8 * (IF rd.len > rd.curr THEN rd.len - rd.curr ELSE 0)

(* -------------------------------- claims -------------------------------- *)

\* C1: on a fresh reader over a buffer whose first 1-bit is bit k,
\* read_levelprefix returns k (0 when the very first bit is 1) and leaves
\* br->err at 0, whatever the value of the byte holding that bit.
C1_FirstOneBit ==
  [][(op = "new" /\ op' = "read_levelprefix" /\ HasOne(r.data))
       => (ret' = FirstOne(r.data) /\ br'.err = 0)]_vars

\* The first call returned 0 for a buffer that starts with a 1-bit.
C1_Witness ==
  /\ op = "read_levelprefix" /\ firstCall
  /\ r.data[1] >= 128 /\ ret = 0 /\ br.err = 0

\* C2: on a fresh reader over a buffer without a 1-bit (the empty buffer
\* included) read_levelprefix returns -1, br->err is 1 and br->nRead is the
\* byte length of the buffer.
C2_AllZeroFails ==
  [][(op = "new" /\ op' = "read_levelprefix" /\ ~HasOne(r.data))
       => (ret' = -1 /\ br'.err = 1 /\ br'.nRead = r.len)]_vars

\* The first call failed on an all-zero buffer of at least two bytes.
C2_Witness ==
  /\ op = "read_levelprefix" /\ firstCall
  /\ r.len >= 2 /\ ~HasOne(r.data)
  /\ ret = -1 /\ br.err = 1 /\ br.nRead = r.len

\* C3: every access data[curr] of every call has 0 <= curr < len.
C3_NoOutOfBounds == \A i \in accessed : 0 <= i /\ i < r.len

\* C4: 0 <= curr <= len in every state, and once Reader.err is 1 no call
\* advances curr.
C4_CursorInRange ==
  [][(0 <= r'.curr /\ r'.curr <= r'.len) /\ (r.err = 1 => r'.curr = r.curr)]_vars

\* C5: in a sequence of successful read_bits calls on a fresh reader, the
\* call that reads n bits after p bits have been read returns the unsigned
\* integer written by bits p .. p+n-1 of the buffer.
C5_MsbFirst ==
  [][(op' = "read_bits" /\ br.err = 0 /\ br'.err = 0)
       => ret' = BitString(r.data, consumed, consumed' - consumed)]_vars

\* C6: read_bits(n) then read_bits(m) on a fresh reader return a and b with
\* a * 2^m + b equal to what a single read_bits(n+m) on a fresh reader over
\* the same buffer returns, n + m <= 32.
C6_SplitConsistency ==
  [][(firstCall /\ op = "read_bits" /\ op' = "read_bits" /\ br.err = 0 /\ br'.err = 0
        /\ consumed' <= 32)
       => \A one \in read_bits(new_BitReader, new_Reader(r.data), consumed', build) :
            one.br.err = 0 /\ Plus(Times2To(ret, consumed' - consumed), ret') = one.ret]_vars

\* C7: once br->err is 1, every read_bits call returns 0 and leaves br->err
\* at 1.
C7_StickyFailure ==
  [][(br.err = 1 /\ op' = "read_bits") => (ret' = Zero64 /\ br'.err = 1)]_vars

\* C8: the error flags are never reset, and once br->err is set every
\* read_levelprefix call returns -1.
C8_PrefixFailsAgain ==
  [][/\ br.err = 1 => br'.err = 1
     /\ r.err = 1 => r'.err = 1
     /\ (br.err = 1 /\ op' = "read_levelprefix") => ret' = -1]_vars

\* A read_levelprefix call failed on a reader whose cursor had already run
\* past the end before it.
C8_Witness ==
  /\ op = "read_levelprefix" /\ ret = -1 /\ br.err = 1
  /\ r.curr >= r.len + 2

\* C9 as stated: between read_bits calls the bits fetched minus the bits
\* consumed, which is br->bits, never exceed 7.
C9_NoOverRead ==
  8 * br.nRead - consumed = br.bits /\ 8 * br.nRead - consumed <= 7

\* C9 amended: the same, in the states in which br->err is 0.
C9_NoOverReadWhileOk ==
  /\ 8 * br.nRead - consumed = br.bits
  /\ br.err = 0 => 8 * br.nRead - consumed <= 7

\* A successful read left seven bits of the second byte pending.
C9_Witness ==
  op = "read_bits" /\ br.err = 0 /\ br.nRead = 2 /\ br.bits = 7

\* C10: read_levelprefix returns after at most (unread bits) + 1 calls of
\* read_bits, from every reachable state.
C10_PrefixTerminates ==
  [][op' = "read_levelprefix" => (1 <= calls' /\ calls' <= Unread(br, r) + 1)]_vars

\* The bound is met: an all-zero buffer of two bytes or more, read to its end.
C10_Witness ==
  /\ op = "read_levelprefix" /\ firstCall
  /\ r.len >= 2 /\ calls = 8 * r.len + 1

\* C11: on a reader with err = 0, read_bits(n) sets br->err exactly when
\* fewer than n unread bits remain; otherwise it hands out n bits and leaves
\* both error flags at 0.
C11_OnlyExhaustionFails ==
  [][(op' = "read_bits" /\ br.err = 0)
       => IF br'.err = 1
          THEN r'.err = 1 /\ \A n \in Widths : ReadBitsN(n) => Unread(br, r) < n
          ELSE /\ r'.err = 0
               /\ consumed' - consumed >= 1
               /\ consumed' - consumed <= Unread(br, r)]_vars

\* A first failure that fetched at least one byte before it ran out: some
\* bits remained, fewer than asked for.
C11_Witness ==
  /\ op = "read_bits" /\ br.err = 1
  /\ r.curr = r.len + 1 /\ br.bits >= 8

\* 2^n - 1 as a uint64_t, 0 <= n <= 64.
LowOnes(n) ==
  [i \in 1..8 |->
     LET lo == 8 * (8 - i)
     IN  IF n >= lo + 8 THEN 255 ELSE IF n > lo THEN Pow2(n - lo) - 1 ELSE 0]

\* x mod 2^n on a uint64_t, 0 <= n <= 64.
Mod2To(x, n) ==
  [i \in 1..8 |->
     LET lo == 8 * (8 - i)
     IN  IF n >= lo + 8 THEN x[i] ELSE IF n > lo THEN x[i] % Pow2(n - lo) ELSE 0]

\* The 32-bit int x is 2^n: not negative, and only bit n set.
IsTwoTo(x, n) ==
  /\ n < 32 /\ x[1] < 128
  /\ \A i \in 1..4 : x[i] = (IF 4 - i = n \div 8 THEN Pow2(n % 8) ELSE 0)

\* C12: for every width n the int 1 << n is 2^n (no overflow, no
\* out-of-range shift), the mask is 2^n - 1, and a successful read_bits(n)
\* returns (accumulator >> (bits - n)) mod 2^n.
C12_AllWidths ==
  [][(op' = "read_bits" /\ consumed' > consumed)
       => LET n == consumed' - consumed
          IN  /\ \A sh \in ShiftOutcomes(n) :
                   IsTwoTo(Shl1(n, sh), n) /\ Mask(n, sh) = LowOnes(n)
              /\ ret' = Mod2To(Shr(br'.n, br'.bits), n)]_vars

\* C13: a call in which next_byte was called at curr >= len leaves br->err
\* at 1 and br->n, br->bits and br->nRead as they were just before that
\* fetch; read_bits itself returns 0.
C13_FailedFetchNotConsumed ==
  (\E i \in accessed : i >= r.len)
    => /\ br.err = 1
       /\ br.n = kept.n /\ br.bits = kept.bits /\ br.nRead = kept.nRead
       /\ op = "read_bits" => ret = Zero64

\* A read_bits call fetched two bytes or more and then ran out.
C13_Witness ==
  /\ op = "read_bits" /\ \E i \in accessed : i >= r.len
  /\ Cardinality(accessed) >= 3 /\ br.bits >= 16

\* C14: a read_levelprefix call that returns k >= 0 from bit offset p found
\* k 0-bits at p .. p+k-1 and a 1-bit at p+k, and leaves the reader at bit
\* offset p + k + 1; so consecutive calls return the runs of 0-bits between
\* consecutive 1-bits.
C14_ConsumesThroughFirstOne ==
  [][(op' = "read_levelprefix" /\ ret' >= 0)
       => /\ consumed' = consumed + ret' + 1
          /\ consumed' <= NBits(r.data)
          /\ BitAt(r.data, consumed + ret') = 1
          /\ \A j \in consumed..(consumed + ret' - 1) : BitAt(r.data, j) = 0]_vars

\* A second or later call returned a run of at least one 0-bit.
C14_Witness ==
  /\ op = "read_levelprefix" /\ ~firstCall /\ br.err = 0
  /\ ret >= 1 /\ consumed > ret + 1

C16_FlagsAgree ==
  /\ (br.err = 1) <=> (r.err = 1)
  /\ br.err \in {0, 1} /\ r.err \in {0, 1}
  /\ op = "new" => (br.err = 0 /\ r.err = 0)

\* Both flags are set after a failing read_levelprefix call.
C16_Witness == op = "read_levelprefix" /\ br.err = 1 /\ r.err = 1

====
